---- MODULE Spec2Model ----
(***************************************************************************)
(* effect-tanstack-query: the adapter between Effect runtimes and the      *)
(* TanStack query cache.                                                   *)
(*                                                                         *)
(* The model has four parts:                                               *)
(*   - one RuntimeProvider scope driven by the rendering layer (render,    *)
(*     commit, effect disconnect / reconnect, unmount);                    *)
(*   - the hooks useRuntime / useQuery / useSuspenseQuery / useMutation;   *)
(*   - the fetch and mutate functions produced by toQueryOptions and       *)
(*     toMutationOptions, driven by the cache layer (one call in flight);  *)
(*   - the cache entry and its select transform.                           *)
(*                                                                         *)
(* Every value that crosses a boundary is a record [tag, v] of two         *)
(* strings, so that data, causes and bare errors stay comparable.          *)
(***************************************************************************)
EXTENDS Naturals, Sequences, FiniteSets, TLC

\* How many times the rendering layer may disconnect and reconnect the
\* provider's effect (StrictMode's replay, Activity hide / show).
MaxReconnects == 2

VARIABLES
    phase,         \* the rendering layer's position for the provider scope
    rt,            \* the scope's ManagedRuntime: "none" | "ready" | "disposed"
    built,         \* how many times ManagedRuntime.make ran for the scope
    mountedRef,    \* mountedRef.current
    cleanup,       \* whether the latest effect run returned the disposing cleanup
    effectRuns,    \* how many times the effect callback ran
    reconnects,    \* how many reconnects the rendering layer has performed
    disposeCalls,  \* how many times runtime.dispose() was invoked
    hookRes,       \* the outcome of the latest hook call
    call,          \* the cache layer's current call of a fetch / mutate function
    cacheData,     \* the data stored in the cache entry
    readRes,       \* the outcome of select on the stored data, once read
    desc,          \* the application's query descriptor (pure data, fixed)
    xlate          \* the latest call of a translator: its input and its result

provVars == <<phase, rt, built, mountedRef, cleanup, effectRuns, reconnects, disposeCalls>>
vars == <<phase, rt, built, mountedRef, cleanup, effectRuns, reconnects, disposeCalls,
          hookRes, call, cacheData, readRes, desc, xlate>>

----------------------------------------------------------------------------
(* Values *)

Val(t, x) == [tag |-> t, v |-> x]

None == Val("None", "none")

\* Cause constructors of the effect library, as far as the adapter sees them.
CauseFail(e) == Val("Fail", e)
CauseDie(d) == Val("Die", d)
CauseInterrupt == Val("Interrupt", "fiber")

CauseTags == {"Fail", "Die", "Interrupt"}

ParseError(side) == Val("ParseError", side)

\* What the configuration error of useRuntime carries.
ConfigError == Val("Error", "useRuntime must be used within a RuntimeProvider")

IsCause(x) == x.tag \in CauseTags

IsPromise(x) == x.tag = "Promise"

----------------------------------------------------------------------------
(* RuntimeProvider: runtime.tsx, RuntimeProvider *)

\* useMemo(() => ManagedRuntime.make(layer, memoMap), []): how many runtimes
\* a render constructs, given whether the memo cell is already filled.
MakeCalls(memoFilled) == IF memoFilled THEN 0 ELSE 1

\* Mutant: the effect callback without its mountedRef guard.
ReturnsCleanupAlways(mounted) == TRUE

\* The effect callback's early return: the run returns the disposing cleanup
\* only when mountedRef.current was already true.
ReturnsCleanup(mounted) == mounted

\* runtime.dispose(): the runtime's scope is closed; closing it again changes
\* nothing.
Dispose(r) == "disposed"

\* One run of the effect callback.
EffectCallback ==
    /\ mountedRef' = TRUE
    /\ cleanup' = ReturnsCleanup(mountedRef)
    /\ effectRuns' = effectRuns + 1

\* The rendering layer runs the cleanup the latest effect run returned, if it
\* returned one.
RunCleanup ==
    /\ cleanup' = FALSE
    /\ IF cleanup
         THEN rt' = Dispose(rt) /\ disposeCalls' = disposeCalls + 1
         ELSE UNCHANGED <<rt, disposeCalls>>

\* First render of the scope: useMemo builds the runtime, useRef(false).
Render ==
    /\ phase = "unrendered"
    /\ phase' = "rendered"
    /\ built' = built + MakeCalls(FALSE)
    /\ rt' = "ready"
    /\ mountedRef' = FALSE
    /\ UNCHANGED <<cleanup, effectRuns, reconnects, disposeCalls>>
    /\ UNCHANGED <<hookRes, call, cacheData, readRes, desc, xlate>>

\* How many times the rendering layer calls the callback of a useMemo whose
\* cell is empty: once, or twice when it double-invokes render-phase
\* functions (StrictMode in development); one of the two results is kept.
MemoInvocations(doubleInvoke) == IF doubleInvoke THEN 2 ELSE 1

\* First render of the scope with the memo callback double-invoked: every
\* invocation runs ManagedRuntime.make, the memo cell keeps one runtime.
StrictRender ==
    /\ phase = "unrendered"
    /\ phase' = "rendered"
    /\ built' = built + MemoInvocations(TRUE) * MakeCalls(FALSE)
    /\ rt' = "ready"
    /\ mountedRef' = FALSE
    /\ UNCHANGED <<cleanup, effectRuns, reconnects, disposeCalls>>
    /\ UNCHANGED <<hookRes, call, cacheData, readRes, desc, xlate>>

\* A later render of the same scope: the memo cell and the ref are kept, and
\* the effect's dependency [runtime] is unchanged, so the effect is not re-run.
Rerender ==
    /\ phase \in {"mounted", "hidden"}
    /\ built' = built + MakeCalls(TRUE)
    /\ UNCHANGED <<phase, rt, mountedRef, cleanup, effectRuns, reconnects, disposeCalls>>
    /\ UNCHANGED <<hookRes, call, cacheData, readRes, desc, xlate>>

\* The render is thrown away before it commits: no effect ever runs.
Discard ==
    /\ phase = "rendered"
    /\ phase' = "discarded"
    /\ UNCHANGED <<rt, built, mountedRef, cleanup, effectRuns, reconnects, disposeCalls>>
    /\ UNCHANGED <<hookRes, call, cacheData, readRes, desc, xlate>>

\* The mount commit: the effect runs for the first time.
Commit ==
    /\ phase = "rendered"
    /\ phase' = "mounted"
    /\ EffectCallback
    /\ UNCHANGED <<rt, built, reconnects, disposeCalls>>
    /\ UNCHANGED <<hookRes, call, cacheData, readRes, desc, xlate>>

\* The rendering layer disconnects the effect of a scope that stays in the
\* tree (StrictMode's simulated unmount, a hidden Activity, a hot reload).
Disconnect ==
    /\ phase = "mounted"
    /\ reconnects < MaxReconnects
    /\ phase' = "hidden"
    /\ reconnects' = reconnects + 1
    /\ RunCleanup
    /\ UNCHANGED <<built, mountedRef, effectRuns>>
    /\ UNCHANGED <<hookRes, call, cacheData, readRes, desc, xlate>>

\* ... and reconnects it: the effect callback runs again, state and refs kept.
Reconnect ==
    /\ phase = "hidden"
    /\ phase' = "mounted"
    /\ EffectCallback
    /\ UNCHANGED <<rt, built, reconnects, disposeCalls>>
    /\ UNCHANGED <<hookRes, call, cacheData, readRes, desc, xlate>>

\* The scope is removed from the tree for good.
Unmount ==
    /\ phase \in {"mounted", "hidden"}
    /\ phase' = "unmounted"
    /\ IF phase = "mounted"
         THEN RunCleanup
         ELSE UNCHANGED <<rt, disposeCalls, cleanup>>
    /\ UNCHANGED <<built, mountedRef, effectRuns, reconnects>>
    /\ UNCHANGED <<hookRes, call, cacheData, readRes, desc, xlate>>

----------------------------------------------------------------------------
(* Hooks: runtime.tsx, useRuntime / useQuery / useSuspenseQuery / useMutation *)

Hooks == {"useRuntime", "useQuery", "useSuspenseQuery", "useMutation"}

\* The value React.useContext(RuntimeContext) yields: the provider's runtime
\* inside a provider, the context's default null outside.
RuntimeHandle == Val("Runtime", "provider")
Null == Val("Null", "null")

\* What the cache layer's suspense-read primitive may do when it is called:
\* return a result, throw a pending promise, or throw a resolved failure (a
\* Cause from the fetch function, or any other thrown value).
PrimReturn(r) == [t |-> "return", v |-> r]
PrimThrow(e) == [t |-> "throw", v |-> e]

PrimOutcomes ==
    {PrimReturn(Val("Result", "r1"))}
      \cup {PrimThrow(Val("Promise", p)) : p \in {"p1", "p2"}}
      \cup {PrimThrow(c) : c \in {CauseFail("E1"), CauseDie("D1"), CauseInterrupt}}
      \cup {PrimThrow(ParseError("decode"))}

\* The standard (non-suspense) primitives return their result object.
NoPrim == PrimReturn(Val("Result", "r0"))

\* Cause.die(e): a defect wrapping the thrown value.
DieOf(e) == CauseDie(e.tag \o ":" \o e.v)

\* The outcome of a hook call: thrown or returned value, the arm of the Either
\* (useSuspenseQuery only), and how far the hook got.
Outcome(threw, either, v, translated, primitive) ==
    [threw |-> threw, either |-> either, v |-> v,
     translated |-> translated, primitive |-> primitive]

\* Mutant: useRuntime without its null check.
useRuntimeUnchecked(ctx) == Outcome(FALSE, "none", ctx, FALSE, FALSE)

useRuntime(ctx) ==
    IF ctx = Null
      THEN Outcome(TRUE, "none", ConfigError, FALSE, FALSE)
      ELSE Outcome(FALSE, "none", ctx, FALSE, FALSE)

useQuery(ctx, prim) ==
    LET runtime == useRuntime(ctx) IN
    IF runtime.threw
      THEN runtime
      ELSE Outcome(prim.t = "throw", "none", prim.v, TRUE, TRUE)

\* Mutant: useSuspenseQuery whose catch captures every thrown value.
useSuspenseQueryCatchAll(ctx, prim) ==
    LET runtime == useRuntime(ctx) IN
    IF runtime.threw
      THEN runtime
      ELSE IF prim.t = "return"
        THEN Outcome(FALSE, "Right", prim.v, TRUE, TRUE)
        ELSE Outcome(FALSE, "Left",
                     IF IsCause(prim.v) THEN prim.v ELSE DieOf(prim.v),
                     TRUE, TRUE)

useSuspenseQuery(ctx, prim) ==
    LET runtime == useRuntime(ctx) IN
    IF runtime.threw
      THEN runtime
      ELSE IF prim.t = "return"
        THEN Outcome(FALSE, "Right", prim.v, TRUE, TRUE)
        ELSE IF IsPromise(prim.v)
          THEN Outcome(TRUE, "none", prim.v, TRUE, TRUE)
          ELSE Outcome(FALSE, "Left",
                       IF IsCause(prim.v) THEN prim.v ELSE DieOf(prim.v),
                       TRUE, TRUE)

useMutation(ctx, prim) ==
    LET runtime == useRuntime(ctx) IN
    IF runtime.threw
      THEN runtime
      ELSE Outcome(prim.t = "throw", "none", prim.v, TRUE, TRUE)

CallHook(hook, ctx, prim) ==
    CASE hook = "useRuntime" -> useRuntime(ctx)
      [] hook = "useQuery" -> useQuery(ctx, prim)
      [] hook = "useSuspenseQuery" -> useSuspenseQuery(ctx, prim)
      [] hook = "useMutation" -> useMutation(ctx, prim)

NoHook == [hook |-> "none", inside |-> FALSE, rtAtCall |-> "none", prim |-> NoPrim,
           out |-> Outcome(FALSE, "none", None, FALSE, FALSE)]

\* A component calls a hook while it renders: inside the provider's subtree
\* (which renders only while the provider is in the tree) or outside any
\* provider.
HookCall ==
    /\ \E hook \in Hooks, inside \in BOOLEAN, p \in PrimOutcomes :
         /\ inside => phase \in {"rendered", "mounted", "hidden"}
         /\ LET ctx == IF inside THEN RuntimeHandle ELSE Null
                prim == IF hook = "useSuspenseQuery" THEN p ELSE NoPrim
            IN hookRes' = [hook |-> hook, inside |-> inside,
                           rtAtCall |-> IF inside THEN rt ELSE "none",
                           prim |-> prim, out |-> CallHook(hook, ctx, prim)]
    /\ UNCHANGED provVars
    /\ UNCHANGED <<call, cacheData, readRes, desc, xlate>>

----------------------------------------------------------------------------
(* Schema, Exit and promises: what options.ts consumes *)

Data(x) == Val("Data", x)

\* The outcome of a synchronous schema call: a value, or a thrown ParseError.
Ok(v) == [ok |-> TRUE, v |-> v]
Thrown(e) == [ok |-> FALSE, v |-> e]

\* "none": the descriptor has no schema.  "RoundTrip": decode(encode(x)) = x
\* on every valid x.  "Lossy": encode maps two rich values to one wire value.
\* A value outside a schema's domain makes encodeSync / decodeSync throw.
Schemas == {"none", "RoundTrip", "Lossy"}

\* Schema.encodeSync(schema)(data)
encodeSync(schema, d) ==
    CASE d = Data("R1") -> Ok(Data("W1"))
      [] d = Data("R2") -> Ok(Data(IF schema = "Lossy" THEN "W1" ELSE "W2"))
      [] OTHER -> Thrown(ParseError("encode"))

\* Schema.decodeSync(schema)(data)
decodeSync(schema, d) ==
    CASE d = Data("W1") -> Ok(Data("R1"))
      [] d = Data("W2") -> Ok(Data("R2"))
      [] OTHER -> Thrown(ParseError("decode"))

Success(v) == [ok |-> TRUE, v |-> v]
Failure(c) == [ok |-> FALSE, v |-> c]
NoExit == Failure(None)

Pending == [state |-> "pending", v |-> None]
Resolved(v) == [state |-> "resolved", v |-> v]
Rejected(e) == [state |-> "rejected", v |-> e]

\* What an effect may end in when nothing interrupts it from outside.
SuccessValues == {Data("R1"), Data("R2"), Data("RX")}
OwnCauses == {CauseFail("E1"), CauseDie("D1"), CauseInterrupt}
OwnExits == {Success(v) : v \in SuccessValues} \cup {Failure(c) : c \in OwnCauses}

\* The exit of a run handed to a runtime that was disposed before.
DisposedExit == Failure(CauseDie("ManagedRuntime disposed"))

----------------------------------------------------------------------------
(* options.ts: toQueryOptions, toMutationOptions *)

\* consumeAbortSignal?: boolean
Flags == {"unset", "false", "true"}
Truthy(flag) == flag = "true"

\* options.queryFn(): the effect the descriptor builds.
QueryEffect == "queryFn()"

QueryDescriptors ==
    [queryKey : {"todos"}, queryFn : {[builds |-> QueryEffect]}, schema : Schemas,
     consumeAbortSignal : Flags]

Variables == {"V1", "V2"}

\* Mutant: runAbortablePromiseExit that drops its signal.
runAbortablePromiseExitNoSignal(signal) == "none"

\* runAbortablePromiseExit(runtime, signal): the options it hands to
\* runtime.runPromiseExit.
runAbortablePromiseExit(signal) == signal

\* Mutant: the abort signal forwarded whatever the flag says.
RunSignalAlways(options) == runAbortablePromiseExit("ctx.signal")

\* The signal the run is started with:
\*   !!options.consumeAbortSignal ? runAbortablePromiseExit(runtime, ctx.signal)
\*                                : runtime.runPromiseExit
RunSignal(options) ==
    IF Truthy(options.consumeAbortSignal)
      THEN runAbortablePromiseExit("ctx.signal")
      ELSE "none"

\* Mutant: the onSuccess arm without the encode step.
QueryOnSuccessRaw(schema, data) == Resolved(data)

\* Exit.match of the fetch function, onSuccess arm.
QueryOnSuccess(schema, data) ==
    IF schema # "none"
      THEN LET e == encodeSync(schema, data)
           IN IF e.ok THEN Resolved(e.v) ELSE Rejected(e.v)
      ELSE Resolved(data)

\* Mutant: the onFailure arm throwing a squashed error instead of the cause.
QueryOnFailureSquashed(cause) == Rejected(Val("Error", cause.v))

\* Exit.match of the fetch function, onFailure arm: throw cause.
QueryOnFailure(cause) == Rejected(cause)

\* .then(Exit.match({onSuccess, onFailure})) of the fetch function.
QueryThen(schema, exit) ==
    IF exit.ok THEN QueryOnSuccess(schema, exit.v) ELSE QueryOnFailure(exit.v)

\* select: (data) => options.schema ? Schema.decodeSync(options.schema)(data) : data
Select(schema, data) ==
    IF schema # "none" THEN decodeSync(schema, data) ELSE Ok(data)

\* Exit.match of the mutate function.
MutationOnSuccess(data) == Resolved(data)

\* Mutant: the onFailure arm returning the cause instead of throwing it.
MutationOnFailureReturned(cause) == Resolved(cause)

MutationOnFailure(cause) == Rejected(cause)

MutationThen(exit) ==
    IF exit.ok THEN MutationOnSuccess(exit.v) ELSE MutationOnFailure(exit.v)

\* An object literal { ...first, ...second }: every field of either, a field
\* of both taking the value written last.
Spread(first, second) ==
    [k \in DOMAIN first \cup DOMAIN second |->
        IF k \in DOMAIN second THEN second[k] ELSE first[k]]

\* The queryFn and select toQueryOptions writes after ...options.  queryFn is
\* kept as what it closes over, select as the schema it decodes with ("none":
\* the identity).
QueryOverrides(options, runtime, suspense) ==
    [queryFn |-> [runtime |-> runtime,
                  effect |-> options.queryFn.builds,
                  span |-> IF suspense THEN "useSuspenseQuery" ELSE "useQuery",
                  signal |-> RunSignal(options),
                  schema |-> options.schema],
     select |-> [schema |-> options.schema]]

\* Mutant: the descriptor spread after queryFn and select, so that its own
\* fields win.
toQueryOptionsSpreadLast(options, runtime, suspense) ==
    Spread(QueryOverrides(options, runtime, suspense), options)

\* The record toQueryOptions returns: { ...options, queryFn, select }.
toQueryOptions(options, runtime, suspense) ==
    Spread(options, QueryOverrides(options, runtime, suspense))

\* The record toMutationOptions returns: { ...options, mutationFn };
\* runtime.runPromiseExit gets no signal.
toMutationOptions(options, runtime) ==
    Spread(options,
           [mutationFn |-> [runtime |-> runtime, effect |-> options.mutationFn.builds,
                            span |-> "useMutation", signal |-> "none"]])

MutationDescriptors == [mutationKey : {"createTodo"}, mutationFn : {[builds |-> "mutationFn"]}]

\* Native options of the cache layer a descriptor may carry besides its own
\* fields; each may be absent.
Empty == [k \in {} |-> k]

QueryExtras ==
    {retry @@ select @@ stale :
        retry \in {Empty, [retry |-> 0], [retry |-> 3]},
        select \in {Empty, [select |-> [fn |-> "callerSelect"]]},
        stale \in {Empty, [staleTime |-> 5000]}}

QueryInputs == {d @@ e : d \in QueryDescriptors, e \in QueryExtras}

MutationExtras ==
    {retry @@ hook :
        retry \in {Empty, [retry |-> 0], [retry |-> 3]},
        hook \in {Empty, [onSuccess |-> "callerOnSuccess"]}}

MutationInputs == {d @@ e : d \in MutationDescriptors, e \in MutationExtras}

\* The runtimes a translator is called with: the provider's (by the hooks) or
\* one made at module level (by a route loader).
Runtimes == {RuntimeHandle, Val("Runtime", "standalone")}

NoXlate == [kind |-> "none", input |-> Empty, output |-> Empty]

\* toQueryOptions is called on a descriptor.
TranslateQuery ==
    /\ \E options \in QueryInputs, runtime \in Runtimes, suspense \in BOOLEAN :
         xlate' = [kind |-> "query", input |-> options,
                   output |-> toQueryOptions(options, runtime, suspense)]
    /\ UNCHANGED provVars
    /\ UNCHANGED <<hookRes, call, cacheData, readRes, desc>>

\* toMutationOptions is called on a descriptor.
TranslateMutation ==
    /\ \E options \in MutationInputs, runtime \in Runtimes :
         xlate' = [kind |-> "mutation", input |-> options,
                   output |-> toMutationOptions(options, runtime)]
    /\ UNCHANGED provVars
    /\ UNCHANGED <<hookRes, call, cacheData, readRes, desc>>

----------------------------------------------------------------------------
(* The cache layer driving the produced fetch and mutate functions *)

NoCall == [kind |-> "none", state |-> "idle", input |-> "none", effect |-> "none",
           signal |-> "none",
           aborted |-> FALSE, onDisposed |-> FALSE, exit |-> NoExit, promise |-> Pending]

\* options.mutationFn(vars): the effect the descriptor builds for these variables.
MutationEffect(variables) == "mutationFn(" \o variables \o ")"

NoRead == [read |-> FALSE, out |-> Ok(None)]

\* The cache layer calls the fetch function of the translated descriptor:
\* options.queryFn() builds the effect, and the run starts on the runtime the
\* function closed over.
InvokeQueryFn ==
    /\ rt # "none"
    /\ call.state \in {"idle", "settled"}
    /\ \E suspense \in BOOLEAN :
         LET fn == toQueryOptions(desc, RuntimeHandle, suspense).queryFn
         IN call' = [kind |-> "query", state |-> "running", input |-> "none",
                     effect |-> QueryEffect,
                     signal |-> fn.signal, aborted |-> FALSE,
                     onDisposed |-> (rt = "disposed"),
                     exit |-> NoExit, promise |-> Pending]
    /\ UNCHANGED provVars
    /\ UNCHANGED <<hookRes, cacheData, readRes, desc, xlate>>

\* The cache layer calls the mutate function with the caller's variables.
InvokeMutationFn ==
    /\ rt # "none"
    /\ call.state \in {"idle", "settled"}
    /\ \E options \in MutationDescriptors, variables \in Variables :
         LET fn == toMutationOptions(options, RuntimeHandle).mutationFn
         IN call' = [kind |-> "mutation", state |-> "running", input |-> variables,
                     effect |-> MutationEffect(variables),
                     signal |-> fn.signal, aborted |-> FALSE,
                     onDisposed |-> (rt = "disposed"),
                     exit |-> NoExit, promise |-> Pending]
    /\ UNCHANGED provVars
    /\ UNCHANGED <<hookRes, cacheData, readRes, desc, xlate>>

\* The cache layer fires the per-fetch abort signal of the call in flight.
AbortSignal ==
    /\ call.kind = "query"
    /\ call.state = "running"
    /\ ~call.aborted
    /\ call' = [call EXCEPT !.aborted = TRUE]
    /\ UNCHANGED provVars
    /\ UNCHANGED <<hookRes, cacheData, readRes, desc, xlate>>

\* Whether the fired signal reaches the run.
Interrupted(c) == c.aborted /\ c.signal # "none"

\* The effect ends on its own.
EffectComplete ==
    /\ call.state = "running"
    /\ ~call.onDisposed
    /\ ~Interrupted(call)
    /\ \E exit \in OwnExits :
         call' = [call EXCEPT !.state = "exited", !.exit = exit]
    /\ UNCHANGED provVars
    /\ UNCHANGED <<hookRes, cacheData, readRes, desc, xlate>>

\* The run's fiber is interrupted by the signal it was given.
InterruptRun ==
    /\ call.state = "running"
    /\ ~call.onDisposed
    /\ Interrupted(call)
    /\ call' = [call EXCEPT !.state = "exited", !.exit = Failure(CauseInterrupt)]
    /\ UNCHANGED provVars
    /\ UNCHANGED <<hookRes, cacheData, readRes, desc, xlate>>

\* A run started on a disposed runtime fails at once, without running the effect.
FailFast ==
    /\ call.state = "running"
    /\ call.onDisposed
    /\ call' = [call EXCEPT !.state = "exited", !.exit = DisposedExit]
    /\ UNCHANGED provVars
    /\ UNCHANGED <<hookRes, cacheData, readRes, desc, xlate>>

\* The .then callback settles the promise; the cache layer stores what a fetch
\* function resolved with.
Settle ==
    /\ call.state = "exited"
    /\ LET promise == IF call.kind = "query"
                        THEN QueryThen(desc.schema, call.exit)
                        ELSE MutationThen(call.exit)
       IN /\ call' = [call EXCEPT !.state = "settled", !.promise = promise]
          /\ IF call.kind = "query" /\ promise.state = "resolved"
               THEN cacheData' = promise.v /\ readRes' = NoRead
               ELSE UNCHANGED <<cacheData, readRes>>
    /\ UNCHANGED provVars
    /\ UNCHANGED <<hookRes, desc, xlate>>

\* Wire data reaches the cache entry from outside a fetch (hydration of a
\* persisted or server-rendered cache, initialData).
Seed ==
    /\ \E d \in {Data("W2"), Data("WX")} :
         /\ cacheData # d
         /\ cacheData' = d
    /\ readRes' = NoRead
    /\ UNCHANGED provVars
    /\ UNCHANGED <<hookRes, call, desc, xlate>>

\* An observer reads the entry through select.
Read ==
    /\ cacheData # None
    /\ readRes' = [read |-> TRUE, out |-> Select(toQueryOptions(desc, RuntimeHandle, FALSE).select.schema, cacheData)]
    /\ UNCHANGED provVars
    /\ UNCHANGED <<hookRes, call, cacheData, desc, xlate>>

----------------------------------------------------------------------------
(* Specifications *)

Init ==
    /\ phase = "unrendered"
    /\ rt = "none"
    /\ built = 0
    /\ mountedRef = FALSE
    /\ cleanup = FALSE
    /\ effectRuns = 0
    /\ reconnects = 0
    /\ disposeCalls = 0
    /\ hookRes = NoHook
    /\ call = NoCall
    /\ cacheData = None
    /\ readRes = NoRead
    /\ desc \in QueryDescriptors
    /\ xlate = NoXlate

ProviderNext ==
    \/ Render
    \/ StrictRender
    \/ Rerender
    \/ Discard
    \/ Commit
    \/ Disconnect
    \/ Reconnect
    \/ Unmount

CallNext ==
    \/ InvokeQueryFn
    \/ InvokeMutationFn
    \/ AbortSignal
    \/ EffectComplete
    \/ InterruptRun
    \/ FailFast
    \/ Settle

\* The provider scope and the calls the cache layer makes on its runtime.
Next == ProviderNext \/ CallNext

Spec == Init /\ [][Next]_vars

\* The provider scope and the components calling hooks.
HookNext == ProviderNext \/ HookCall

HookSpec == Init /\ [][HookNext]_vars

\* The cache entry of one descriptor: fetches, hydration and reads, on a
\* runtime whose scope is mounted, or was unmounted after a replayed mount.
FetchInit ==
    /\ \/ phase = "mounted" /\ rt = "ready" /\ effectRuns = 1
          /\ reconnects = 0 /\ disposeCalls = 0
       \/ phase = "unmounted" /\ rt = "disposed" /\ effectRuns = 2
          /\ reconnects = 1 /\ disposeCalls = 1
    /\ built = 1
    /\ mountedRef = TRUE
    /\ cleanup = FALSE
    /\ hookRes = NoHook
    /\ call = NoCall
    /\ cacheData = None
    /\ readRes = NoRead
    /\ desc \in QueryDescriptors
    /\ xlate = NoXlate

FetchNext == CallNext \/ Seed \/ Read

FetchSpec == FetchInit /\ [][FetchNext]_vars

\* The translators applied to descriptors carrying native cache options.
TranslateNext == TranslateQuery \/ TranslateMutation

TranslateSpec == Init /\ [][TranslateNext]_vars

\* The effect library schedules an interrupted fiber and the promise's
\* callbacks; an effect that is not interrupted may run forever.
FairFetchSpec ==
    FetchSpec /\ WF_vars(InterruptRun) /\ WF_vars(FailFast) /\ WF_vars(Settle)

----------------------------------------------------------------------------
(* Claims *)

\* C1 (as stated): once a scope whose mount effect has run is unmounted,
\* runtime.dispose() has been invoked exactly once on its runtime.
C1_DisposedExactlyOnce ==
    phase = "unmounted" => disposeCalls = 1

\* C2: inside a provider useSuspenseQuery returns Right(r) when the primitive
\* returns r, re-throws the very promise the primitive threw, and returns
\* Left(cause) for any other thrown value, the cause being the thrown value
\* itself when that is a Cause.
C2_SuspenseOutcomes ==
    (hookRes.hook = "useSuspenseQuery" /\ hookRes.inside) =>
        LET prim == hookRes.prim
            out == hookRes.out
        IN /\ prim.t = "return" =>
                ~out.threw /\ out.either = "Right" /\ out.v = prim.v
           /\ (prim.t = "throw" /\ prim.v.tag = "Promise") =>
                out.threw /\ out.either = "none" /\ out.v = prim.v
           /\ (prim.t = "throw" /\ prim.v.tag # "Promise") =>
                /\ ~out.threw
                /\ out.either = "Left"
                /\ out.v.tag \in CauseTags
                /\ prim.v.tag \in CauseTags => out.v = prim.v

C2_Witness ==
    /\ hookRes.hook = "useSuspenseQuery"
    /\ hookRes.inside
    /\ hookRes.prim = PrimThrow(Val("Promise", "p2"))
    /\ hookRes.out.threw
    /\ hookRes.out.v = Val("Promise", "p2")

\* C3: when the run of a fetch function ends in Failure(cause), the promise
\* is rejected with that very cause: an expected error, a defect and an
\* interruption stay what they were.
C3_FailureRejectsWithCause ==
    (call.kind = "query" /\ call.state = "settled" /\ ~call.exit.ok) =>
        /\ call.promise.state = "rejected"
        /\ call.promise.v = call.exit.v
        /\ call.promise.v.tag \in CauseTags

C3_Witness ==
    /\ call.kind = "query"
    /\ call.state = "settled"
    /\ call.exit = Failure(CauseFail("E1"))
    /\ call.promise = Rejected(CauseFail("E1"))

\* C4: a fetch function whose effect succeeds with a value the schema accepts
\* resolves with the encoded value, and with the value itself when there is
\* no schema; select returns the decoded stored data, and the stored data
\* itself when there is no schema; so a read of what the fetch stored yields
\* decode(encode(v)), which is v for a round-tripping schema and without one.
C4_CacheBoundaryShape ==
    LET schema == desc.schema
        v == call.exit.v
        fetched == call.kind = "query" /\ call.state = "settled" /\ call.exit.ok
    IN /\ (fetched /\ schema = "none") => call.promise = Resolved(v)
       /\ (fetched /\ schema # "none" /\ encodeSync(schema, v).ok) =>
            /\ call.promise = Resolved(encodeSync(schema, v).v)
            /\ call.promise.v \in {Data("W1"), Data("W2")}
       /\ (readRes.read /\ schema = "none") => readRes.out = Ok(cacheData)
       /\ (readRes.read /\ schema # "none") =>
            readRes.out = decodeSync(schema, cacheData)
       /\ (fetched /\ call.promise.state = "resolved" /\ cacheData = call.promise.v
             /\ readRes.read) =>
            /\ schema = "none" => readRes.out = Ok(v)
            /\ schema = "RoundTrip" => readRes.out = Ok(v)
            /\ schema # "none" =>
                 readRes.out = decodeSync(schema, encodeSync(schema, v).v)

C4_Witness ==
    /\ desc.schema = "RoundTrip"
    /\ call.kind = "query"
    /\ call.state = "settled"
    /\ call.exit = Success(Data("R2"))
    /\ call.promise = Resolved(Data("W2"))
    /\ cacheData = Data("W2")
    /\ readRes.read
    /\ readRes.out = Ok(Data("R2"))

\* The abort signal fired while the effect of a fetch that consumes it was
\* running on a live runtime.
AbortedMidRun ==
    /\ call.kind = "query"
    /\ call.aborted
    /\ Truthy(desc.consumeAbortSignal)
    /\ ~call.onDisposed

RejectedWithInterrupt ==
    /\ call.state = "settled"
    /\ call.promise.state = "rejected"
    /\ call.promise.v.tag = "Interrupt"

\* C5: when the descriptor sets consumeAbortSignal and the abort signal fires
\* while the effect is running, the fetch function eventually settles, and it
\* settles by rejecting with an interruption cause, never by resolving.
C5_AbortInterrupts ==
    /\ [](AbortedMidRun /\ call.state = "settled" => RejectedWithInterrupt)
    /\ ((AbortedMidRun /\ call.state = "running") ~> RejectedWithInterrupt)

C5_Witness ==
    /\ AbortedMidRun
    /\ RejectedWithInterrupt
    /\ call.exit = Failure(CauseInterrupt)

\* C6 (as stated): every error the translated query options hand to the cache
\* layer, a rejection of the fetch function or a throw of select, is a Cause.
C6_ErrorsAreCauses ==
    /\ (call.kind = "query" /\ call.state = "settled"
          /\ call.promise.state = "rejected") => IsCause(call.promise.v)
    /\ (readRes.read /\ ~readRes.out.ok) => IsCause(readRes.out.v)

\* C7 (as stated): once the scope's runtime is disposed no run is started on
\* it.
C7_NoUseAfterDispose ==
    call.state # "idle" => ~call.onDisposed

\* C8: a hook called outside any provider throws the configuration error of
\* useRuntime, before options are translated or a primitive is called, and
\* useSuspenseQuery does not turn it into a Left.
C8_NoProviderThrows ==
    (hookRes.hook # "none" /\ ~hookRes.inside) =>
        /\ hookRes.out.threw
        /\ hookRes.out.v = Val("Error", "useRuntime must be used within a RuntimeProvider")
        /\ hookRes.out.either = "none"
        /\ ~hookRes.out.translated
        /\ ~hookRes.out.primitive

C8_Witness ==
    /\ hookRes.hook = "useSuspenseQuery"
    /\ ~hookRes.inside
    /\ hookRes.out.threw

\* C9: the mutate function runs mutationFn(vars) and resolves with the
\* success value as it is, or rejects with the cause as it is.
C9_MutationUnwraps ==
    (call.kind = "mutation" /\ call.state = "settled") =>
        /\ call.effect = "mutationFn(" \o call.input \o ")"
        /\ call.signal = "none"
        /\ call.exit.ok => call.promise = Resolved(call.exit.v)
        /\ ~call.exit.ok => call.promise = Rejected(call.exit.v)

C9_Witness ==
    /\ call.kind = "mutation"
    /\ call.state = "settled"
    /\ call.input = "V2"
    /\ call.exit = Failure(CauseFail("E1"))
    /\ call.promise = Rejected(CauseFail("E1"))

C11_BuiltOnce ==
    built <= 1

\* The abort signal fired during a fetch whose descriptor does not consume it.
AbortedUnconsumed ==
    /\ call.kind = "query"
    /\ call.aborted
    /\ ~Truthy(desc.consumeAbortSignal)
    /\ ~call.onDisposed

\* C12: the run of a fetch function is given the abort signal exactly when
\* consumeAbortSignal is truthy; when it is unset or false a fired signal does
\* not interrupt the run, which ends in its own exit and settles the promise
\* with it; the run of a mutate function is never given a signal.
C12_SignalOnlyWhenConsumed ==
    /\ call.kind = "query" =>
          (call.signal # "none" <=> desc.consumeAbortSignal = "true")
    /\ call.kind = "mutation" => (call.signal = "none" /\ ~Interrupted(call))
    /\ (AbortedUnconsumed /\ call.state = "running") =>
          (ENABLED EffectComplete /\ ~ENABLED InterruptRun)
    /\ (AbortedUnconsumed /\ call.state \in {"exited", "settled"}) =>
          call.exit \in OwnExits
    /\ (AbortedUnconsumed /\ call.state = "settled") =>
          /\ ~call.exit.ok => call.promise = Rejected(call.exit.v)
          /\ (call.exit.ok /\ desc.schema = "none") =>
               call.promise = Resolved(call.exit.v)
          /\ (call.exit.ok /\ desc.schema # "none") =>
               \/ call.promise = Resolved(encodeSync(desc.schema, call.exit.v).v)
               \/ ~encodeSync(desc.schema, call.exit.v).ok

C12_Witness ==
    /\ AbortedUnconsumed
    /\ desc.consumeAbortSignal = "false"
    /\ call.state = "settled"
    /\ call.exit = Success(Data("R1"))
    /\ call.promise.state = "resolved"

\* C13: the record toQueryOptions returns has the descriptor's fields plus
\* queryFn and select, equals the descriptor on every other field (retry is
\* neither changed nor added), and its select is the schema transform even
\* when the descriptor carries a select of its own; the record
\* toMutationOptions returns equals the descriptor on every field except
\* mutationFn.
C13_TranslatorFrame ==
    LET in == xlate.input
        out == xlate.output
    IN /\ xlate.kind = "query" =>
            /\ DOMAIN out = DOMAIN in \cup {"queryFn", "select"}
            /\ \A k \in DOMAIN in \ {"queryFn", "select"} : out[k] = in[k]
            /\ "retry" \in DOMAIN out <=> "retry" \in DOMAIN in
            /\ out.select = [schema |-> in.schema]
       /\ xlate.kind = "mutation" =>
            /\ DOMAIN out = DOMAIN in
            /\ \A k \in DOMAIN in \ {"mutationFn"} : out[k] = in[k]

C13_Witness ==
    /\ xlate.kind = "query"
    /\ DOMAIN xlate.input = {"queryKey", "queryFn", "schema", "consumeAbortSignal",
                             "retry", "select", "staleTime"}
    /\ xlate.input.retry = 3
    /\ xlate.input.select = [fn |-> "callerSelect"]
    /\ xlate.input.schema = "RoundTrip"
    /\ xlate.output.retry = 3
    /\ xlate.output.select = [schema |-> "RoundTrip"]

====
